---- MODULE Spec2Model ----
(***************************************************************************)
(* The in-memory per-process collection backend of ModSecurity             *)
(* (src/collection/backend/in_memory-per_process.cc).                      *)
(*                                                                         *)
(* InMemoryPerProcess is an unordered multimap from a key string to an     *)
(* ExpirableString (payload + optional expiry instant) guarded by one      *)
(* pthread mutex m_lock.  The multimap is modelled by the sequence of its  *)
(* nodes in iteration order; nodes of equal key are adjacent, as the       *)
(* container guarantees.  Where in the range of equal keys emplace() puts  *)
(* a new node, and where a new key lands in the iteration order, is not    *)
(* fixed by the container's contract: both are nondeterministic.           *)
(*                                                                         *)
(* The specifications share the state:                                     *)
(*   Spec          every public method runs to completion as one step (one *)
(*                 caller, no interleaving); `last` records the call.      *)
(*   ConcSpec      several threads, every method split at its lock         *)
(*                 operations and at each iteration of an unlocked scan.   *)
(*   FairConcSpec  ConcSpec under a fair scheduler.                        *)
(*   DisjointSpec  the threads of ConcSpec, each on a key of its own.      *)
(*   PmSpec        one call of PmFromFile::init (operators/pm_from_file),  *)
(*                 which loads the lines of a dataset into a matcher.      *)
(***************************************************************************)
EXTENDS Integers, Sequences, FiniteSets, TLC

\* ---------------------------------------------------------------- bounds
MaxEntries == 2     \* Spec: nodes in the map
MaxNow == 1         \* ticks of the steady clock in one behaviour
MaxInserts == 2     \* ConcSpec: calls in one behaviour that may emplace
MaxCalls == 2       \* ConcSpec: calls one thread makes
MaxText == 4        \* PmSpec: characters of the dataset text

\* ---------------------------------------------------------------- inputs
Keys == {"a:1", "b:1"}
Values == {"v1", "b:1"}
\* the (key, value) arguments of store, updateFirst and storeOrUpdateFirst
Inputs == {<<"a:1", "v1">>, <<"a:1", "b:1">>, <<"b:1", "v1">>}
Seconds == {-1, 0, 1}
NoKey == ""
\* what a KeyExclusions object omits, as the set of omitted keys
Exclusions == {{}, {"a:1"}, {"b:1"}}

\* characters of the strings that are matched by a regular expression
Chars(s) ==
  CASE s = "a:1" -> <<"a", ":", "1">>
    [] s = "b:1" -> <<"b", ":", "1">>
    [] OTHER -> <<>>

\* A pattern: a literal, possibly anchored at the start of the text.
\* "^a:" and ":1"
Patterns == {[anchored |-> TRUE, lit |-> <<"a", ":">>],
             [anchored |-> FALSE, lit |-> <<":", "1">>]}

VARIABLES
  m,            \* the multimap: sequence of nodes in iteration order
  now,          \* std::chrono::steady_clock::now()
  nins,         \* ConcSpec: calls made so far that may emplace a node
  insertFront,  \* the container puts a node of an existing key first in its range
  last,         \* Spec: the call that has just returned
  pc,           \* ConcSpec: per thread, the position in its current call
  lock,         \* ConcSpec: the holder of m_lock, 0 when free
  loc,          \* ConcSpec: per thread, the locals of its current call
  ncalls,       \* ConcSpec: per thread, the calls it has made
  pm            \* PmSpec: the PmFromFile operator and its call of init()

vars == <<m, now, nins, insertFront, last, pc, lock, loc, ncalls, pm>>

\* ------------------------------------------------------- ExpirableString
\* id is the identity of the node (what an iterator of a thread refers to),
\* not a field of the value; Spec keeps no iterator across steps and gives
\* every node the id 0.
Node(k, v, i) == [key |-> k, val |-> v, hasExp |-> FALSE, exp |-> 0, id |-> i]

isExpired(e, t) == IF ~e.hasExp THEN FALSE ELSE t >= e.exp

ExpirableSetExpiry(e, t, seconds) ==
  [e EXCEPT !.hasExp = TRUE, !.exp = t + seconds]

\* ------------------------------------------------------ multimap helpers
Idx(mm, k) == {i \in 1..Len(mm) : mm[i].key = k}

\* equal_range(k): the nodes of key k, in iteration order
EqualRange(mm, k) == SelectSeq(mm, LAMBDA e : e.key = k)

Count(mm, k) == Len(EqualRange(mm, k))

InsertAt(mm, p, e) == SubSeq(mm, 1, p - 1) \o <<e>> \o SubSeq(mm, p, Len(mm))

Min(S) == CHOOSE x \in S : \A y \in S : x <= y
Max(S) == CHOOSE x \in S : \A y \in S : x >= y

\* positions at which a node of a key not in the map may appear: any place
\* that does not split a range of equal keys
GroupStarts(mm) ==
  {p \in 1..(Len(mm) + 1) :
     p = 1 \/ p = Len(mm) + 1 \/ mm[p - 1].key # mm[p].key}

\* the insert of a map with unique keys: a node of the key is overwritten
Emplace_Assign(mm, k, v, i, front) ==
  IF Idx(mm, k) = {}
  THEN {InsertAt(mm, p, Node(k, v, i)) : p \in GroupStarts(mm)}
  ELSE {[mm EXCEPT ![Min(Idx(mm, k))] = Node(k, v, i)]}

\* emplace(value, key): the arguments swapped
Emplace_SwappedArgs(mm, k, v, i, front) ==
  IF Idx(mm, v) = {}
  THEN {InsertAt(mm, p, Node(v, k, i)) : p \in GroupStarts(mm)}
  ELSE {InsertAt(mm, Min(Idx(mm, v)), Node(v, k, i))}

\* emplace(key, value): the maps that may result
Emplace(mm, k, v, i, front) ==
  IF Idx(mm, k) = {}
  THEN {InsertAt(mm, p, Node(k, v, i)) : p \in GroupStarts(mm)}
  ELSE IF front
       THEN {InsertAt(mm, Min(Idx(mm, k)), Node(k, v, i))}
       ELSE {InsertAt(mm, Max(Idx(mm, k)) + 1, Node(k, v, i))}

\* erase(find(key)): removes one node of that key
Erase_FirstOnly(mm, k) ==
  IF Idx(mm, k) = {}
  THEN mm
  ELSE SubSeq(mm, 1, Min(Idx(mm, k)) - 1)
         \o SubSeq(mm, Min(Idx(mm, k)) + 1, Len(mm))

\* erase(key): removes every node of that key
Erase(mm, k) == SelectSeq(mm, LAMBDA e : e.key # k)

\* ------------------------------------------------------------ KeyExclusions
\* ke.toOmit(key)
toOmit(ke, k) == k \in ke

\* ------------------------------------------------------------ Utils::Regex
\* the literal occurs in the text at position p
OccursAt(text, lit, p) ==
  /\ p + Len(lit) - 1 <= Len(text)
  /\ \A j \in 1..Len(lit) : text[p + j - 1] = lit[j]

\* Utils::regex_search(text, r) > 0
regex_search(s, r) ==
  IF r.anchored
  THEN OccursAt(Chars(s), r.lit, 1)
  ELSE \E p \in 1..Len(Chars(s)) : OccursAt(Chars(s), r.lit, p)

\* ------------------------------------------------- the methods, as functions
\* Each gives the map after the call and what the call hands back.

\* new VariableValue(&m_name, &key, &value)
VariableValue(k, v) == [key |-> k, val |-> v]

\* updateFirst without the return in its loop: every node of the range gets
\* the value
UpdateFirst_All(mm, k, v) ==
  [m |-> [i \in 1..Len(mm) |->
            IF mm[i].key = k THEN [mm[i] EXCEPT !.val = v] ELSE mm[i]],
   ret |-> Idx(mm, k) # {}]

\* updateFirst that reports false although it found and updated a node
UpdateFirst_NeverFound(mm, k, v) ==
  IF Idx(mm, k) = {}
  THEN [m |-> mm, ret |-> FALSE]
  ELSE [m |-> [mm EXCEPT ![Min(Idx(mm, k))].val = v], ret |-> FALSE]

\* updateFirst: the first node of the range gets the value
UpdateFirst(mm, k, v) ==
  IF Idx(mm, k) = {}
  THEN [m |-> mm, ret |-> FALSE]
  ELSE [m |-> [mm EXCEPT ![Min(Idx(mm, k))].val = v], ret |-> TRUE]

\* del
Del(mm, k) == Erase(mm, k)

\* setExpiry whose loop stops after the first node of the range
SetExpiry_FirstOnly(mm, k, t, seconds) ==
  [i \in 1..Len(mm) |->
     IF Idx(mm, k) # {} /\ i = Min(Idx(mm, k))
     THEN ExpirableSetExpiry(mm[i], t, seconds)
     ELSE mm[i]]

\* setExpiry: every node of the range
SetExpiry(mm, k, t, seconds) ==
  [i \in 1..Len(mm) |->
     IF mm[i].key = k THEN ExpirableSetExpiry(mm[i], t, seconds) ELSE mm[i]]

\* The loop of resolveSingleMatch over the range, from node i on: the records
\* pushed back, and the argument of the del() it ends with, if any.
RECURSIVE ScanSingle(_, _, _, _)
ScanSingle(range, i, t, out) ==
  IF i > Len(range)
  THEN [out |-> out, del |-> <<>>]
  ELSE IF isExpired(range[i], t)
       THEN [out |-> out, del |-> <<range[i].val>>]
       ELSE ScanSingle(range, i + 1, t,
                       Append(out, VariableValue(range[i].key, range[i].val)))

\* a scan that ends with clear() in place of del()
AfterScan_Clear(mm, r) == IF r.del = <<>> THEN mm ELSE <<>>

\* the map after the del() a scan ended with
AfterScan(mm, r) == IF r.del = <<>> THEN mm ELSE Del(mm, r.del[1])

ResolveSingleMatch(mm, var, t) ==
  LET r == ScanSingle(EqualRange(mm, var), 1, t, <<>>)
  IN  [m |-> AfterScan(mm, r), out |-> r.out]

\* The loop of resolveMultiMatches for the empty key, over the whole map.
RECURSIVE ScanAll(_, _, _, _, _)
ScanAll(all, i, ke, t, out) ==
  IF i > Len(all)
  THEN [out |-> out, del |-> <<>>]
  ELSE IF toOmit(ke, all[i].key)
       THEN ScanAll(all, i + 1, ke, t, out)
       ELSE IF isExpired(all[i], t)
            THEN [out |-> out, del |-> <<all[i].val>>]
            ELSE ScanAll(all, i + 1, ke, t,
                         <<VariableValue(all[i].key, all[i].val)>> \o out)

\* the loop without its ke.toOmit(var) test
RECURSIVE ScanKey_NoFilter(_, _, _, _, _, _)
ScanKey_NoFilter(range, i, var, ke, t, out) ==
  IF i > Len(range)
  THEN [out |-> out, del |-> <<>>]
  ELSE IF isExpired(range[i], t)
       THEN [out |-> out, del |-> <<range[i].val>>]
       ELSE ScanKey_NoFilter(range, i + 1, var, ke, t,
                             <<VariableValue(var, range[i].val)>> \o out)

\* the loop with push_back in place of insert(begin(), ...)
RECURSIVE ScanKey_Append(_, _, _, _, _, _)
ScanKey_Append(range, i, var, ke, t, out) ==
  IF i > Len(range)
  THEN [out |-> out, del |-> <<>>]
  ELSE IF toOmit(ke, var)
       THEN ScanKey_Append(range, i + 1, var, ke, t, out)
       ELSE IF isExpired(range[i], t)
            THEN [out |-> out, del |-> <<range[i].val>>]
            ELSE ScanKey_Append(range, i + 1, var, ke, t,
                                Append(out, VariableValue(var, range[i].val)))

\* The loop of resolveMultiMatches for a key, over the range of that key.
RECURSIVE ScanKey(_, _, _, _, _, _)
ScanKey(range, i, var, ke, t, out) ==
  IF i > Len(range)
  THEN [out |-> out, del |-> <<>>]
  ELSE IF toOmit(ke, var)
       THEN ScanKey(range, i + 1, var, ke, t, out)
       ELSE IF isExpired(range[i], t)
            THEN [out |-> out, del |-> <<range[i].val>>]
            ELSE ScanKey(range, i + 1, var, ke, t,
                         <<VariableValue(var, range[i].val)>> \o out)

ResolveMultiMatches(mm, var, ke, t) ==
  LET r == IF var = NoKey
           THEN ScanAll(mm, 1, ke, t, <<>>)
           ELSE ScanKey(EqualRange(mm, var), 1, var, ke, t, <<>>)
  IN  [m |-> AfterScan(mm, r), out |-> r.out]

\* The loop of resolveRegularExpression over the whole map.
RECURSIVE ScanRegex(_, _, _, _, _, _)
ScanRegex(all, i, r, ke, t, out) ==
  IF i > Len(all)
  THEN [out |-> out, del |-> <<>>]
  ELSE IF ~regex_search(all[i].key, r)
       THEN ScanRegex(all, i + 1, r, ke, t, out)
       ELSE IF toOmit(ke, all[i].key)
            THEN ScanRegex(all, i + 1, r, ke, t, out)
            ELSE IF isExpired(all[i], t)
                 THEN [out |-> out, del |-> <<all[i].val>>]
                 ELSE ScanRegex(all, i + 1, r, ke, t,
                                <<VariableValue(all[i].key, all[i].val)>> \o out)

ResolveRegularExpression(mm, r, ke, t) ==
  LET s == ScanRegex(mm, 1, r, ke, t, <<>>)
  IN  [m |-> AfterScan(mm, s), out |-> s.out]

\* resolveFirst that returns the last node of the range
ResolveFirst_Last(mm, var) ==
  IF Idx(mm, var) = {} THEN <<>> ELSE <<mm[Max(Idx(mm, var))].val>>

\* resolveFirst: <<payload>> of the first node of the range, <<>> for NULL
ResolveFirst(mm, var) ==
  IF Idx(mm, var) = {} THEN <<>> ELSE <<mm[Min(Idx(mm, var))].val>>

\* ------------------------------------------------------------------ threads
Threads == {1, 2}

Idle == [t \in Threads |-> "idle"]

\* The locals of a call: the method called and its arguments; the iterators
\* `it` and `end` of a scan, as node ids (0 is end()); the output vector; the
\* value returned; the argument of a nested del(); the id of the node a nested
\* emplace() creates.
Locals(op, k, v, secs, ke, pat, it, end, id) ==
  [op |-> op, key |-> k, val |-> v, secs |-> secs, ke |-> ke, pat |-> pat,
   it |-> it, end |-> end, out |-> <<>>, ret |-> <<>>, arg |-> NoKey,
   id |-> id]

NoLocals ==
  [t \in Threads |-> Locals("none", NoKey, "", 0, {}, <<>>, 0, 0, 0)]

\* ------------------------------------------------------------- PmFromFile
\* Strings are sequences of characters.
Alphabet == {"#", " ", "x", "\n"}

\* the dataset texts
Texts == UNION {[1..n -> Alphabet] : n \in 0..MaxText}

\* std::isspace
isspace(c) == c \in {" ", "\n"}

\* std::string::npos
npos == 0

\* s.find(c): the first position of c in s, from 1
find(s, c) ==
  IF \E i \in 1..Len(s) : s[i] = c
  THEN Min({i \in 1..Len(s) : s[i] = c})
  ELSE npos

\* isComment without its test of the size
isComment_NoSizeTest(s) ==
  LET pos == find(s, "#")
  IN  IF pos # npos
      THEN \A i \in 1..(pos - 1) : isspace(s[i])
      ELSE FALSE

\* PmFromFile::isComment
isComment(s) ==
  IF Len(s) = 0
  THEN TRUE
  ELSE LET pos == find(s, "#")
       IN  IF pos # npos
           THEN \A i \in 1..(pos - 1) : isspace(s[i])
           ELSE FALSE

\* std::getline(stream, line): fails on a stream without characters; else
\* the line is what comes before the first newline, which is consumed
getline(stream) ==
  IF stream = <<>>
  THEN [ok |-> FALSE, line |-> <<>>, rest |-> <<>>]
  ELSE LET nl == find(stream, "\n")
       IN  IF nl = npos
           THEN [ok |-> TRUE, line |-> stream, rest |-> <<>>]
           ELSE [ok |-> TRUE, line |-> SubSeq(stream, 1, nl - 1),
                 rest |-> SubSeq(stream, nl + 1, Len(stream))]

\* acmp_add_pattern(m_p, line.c_str(), NULL, NULL, line.length()): m_p is
\* kept as the sequence of the lines handed to the matcher, in call order
acmp_add_pattern(parser, line) == Append(parser, line)

\* wasm_data::get_data_map() and the entry of m_param in it: no map, a map
\* without the entry, or a map with the entry
NoDataMap == [set |-> FALSE, found |-> FALSE, value |-> <<>>]

DataMaps ==
  {NoDataMap, [set |-> TRUE, found |-> FALSE, value |-> <<>>]}
    \cup {[set |-> TRUE, found |-> TRUE, value |-> tx] : tx \in Texts}

\* a PmFromFile whose init() has not run: the position in init(), the
\* stream over the data, the patterns of the matcher m_p and its flag
\* is_failtree_done, what init() returned and the error it assigned
PmStart(dm) ==
  [map |-> dm, pos |-> "start", data_stream |-> <<>>, m_p |-> <<>>,
   is_failtree_done |-> FALSE, ret |-> <<>>, error |-> ""]

\* ------------------------------------------------------------------- Init
\* The record of a returned call: its name, its arguments, the map it
\* started from, and what it handed back.
Call(op, k, v, secs, ke, pat, ok, ret, out, pre) ==
  [op |-> op, key |-> k, val |-> v, secs |-> secs, ke |-> ke, pat |-> pat,
   ok |-> ok, ret |-> ret, out |-> out, pre |-> pre]

NoCall == Call("none", NoKey, "", 0, {}, <<>>, TRUE, <<>>, <<>>, <<>>)

\* The constructor leaves the map empty and the mutex free.
Init ==
  /\ m = <<>>
  /\ now = 0
  /\ nins = 0
  /\ insertFront \in BOOLEAN
  /\ last = NoCall
  /\ pc = Idle
  /\ lock = 0
  /\ loc = NoLocals
  /\ ncalls = [t \in Threads |-> 0]
  /\ pm = PmStart(NoDataMap)

\* ------------------------------------------------ Spec: one call, one step
store(k, v) ==
  /\ Len(m) < MaxEntries
  /\ \E mm \in Emplace(m, k, v, 0, insertFront) : m' = mm
  /\ last' = Call("store", k, v, 0, {}, <<>>, TRUE, <<>>, <<>>, m)
  /\ UNCHANGED <<now, nins, insertFront, pm, pc, lock, loc, ncalls>>

updateFirst(k, v) ==
  /\ LET r == UpdateFirst(m, k, v)
     IN  /\ m' = r.m
         /\ last' = Call("updateFirst", k, v, 0, {}, <<>>, r.ret, <<>>, <<>>, m)
  /\ UNCHANGED <<now, nins, insertFront, pm, pc, lock, loc, ncalls>>

storeOrUpdateFirst(k, v) ==
  /\ IF UpdateFirst(m, k, v).ret = FALSE
     THEN /\ Len(m) < MaxEntries
          /\ \E mm \in Emplace(UpdateFirst(m, k, v).m, k, v, 0,
                               insertFront) : m' = mm
     ELSE m' = UpdateFirst(m, k, v).m
  /\ last' = Call("storeOrUpdateFirst", k, v, 0, {}, <<>>, TRUE, <<>>, <<>>, m)
  /\ UNCHANGED <<now, nins, insertFront, pm, pc, lock, loc, ncalls>>

del(k) ==
  /\ m' = Del(m, k)
  /\ last' = Call("del", k, "", 0, {}, <<>>, TRUE, <<>>, <<>>, m)
  /\ UNCHANGED <<now, nins, insertFront, pm, pc, lock, loc, ncalls>>

setExpiry(k, seconds) ==
  /\ m' = SetExpiry(m, k, now, seconds)
  /\ last' = Call("setExpiry", k, "", seconds, {}, <<>>, TRUE, <<>>, <<>>, m)
  /\ UNCHANGED <<now, nins, insertFront, pm, pc, lock, loc, ncalls>>

resolveSingleMatch(var) ==
  /\ LET r == ResolveSingleMatch(m, var, now)
     IN  /\ m' = r.m
         /\ last' = Call("resolveSingleMatch", var, "", 0, {}, <<>>, TRUE,
                         <<>>, r.out, m)
  /\ UNCHANGED <<now, nins, insertFront, pm, pc, lock, loc, ncalls>>

resolveMultiMatches(var, ke) ==
  /\ LET r == ResolveMultiMatches(m, var, ke, now)
     IN  /\ m' = r.m
         /\ last' = Call("resolveMultiMatches", var, "", 0, ke, <<>>, TRUE,
                         <<>>, r.out, m)
  /\ UNCHANGED <<now, nins, insertFront, pm, pc, lock, loc, ncalls>>

resolveRegularExpression(r, ke) ==
  /\ LET s == ResolveRegularExpression(m, r, ke, now)
     IN  /\ m' = s.m
         /\ last' = Call("resolveRegularExpression", NoKey, "", 0, ke, <<r>>,
                         TRUE, <<>>, s.out, m)
  /\ UNCHANGED <<now, nins, insertFront, pm, pc, lock, loc, ncalls>>

resolveFirst(var) ==
  /\ m' = m
  /\ last' = Call("resolveFirst", var, "", 0, {}, <<>>, TRUE,
                  ResolveFirst(m, var), <<>>, m)
  /\ UNCHANGED <<now, nins, insertFront, pm, pc, lock, loc, ncalls>>

\* the steady clock advances between calls
Tick ==
  /\ now < MaxNow
  /\ now' = now + 1
  /\ last' = NoCall
  /\ UNCHANGED <<m, nins, insertFront, pm, pc, lock, loc, ncalls>>

Next ==
  \/ \E kv \in Inputs : store(kv[1], kv[2])
  \/ \E kv \in Inputs : updateFirst(kv[1], kv[2])
  \/ \E kv \in Inputs : storeOrUpdateFirst(kv[1], kv[2])
  \/ \E k \in Keys : del(k)
  \/ \E k \in Keys, s \in Seconds : setExpiry(k, s)
  \/ \E k \in Keys : resolveSingleMatch(k)
  \/ \E k \in Keys \cup {NoKey}, ke \in Exclusions : resolveMultiMatches(k, ke)
  \/ \E r \in Patterns, ke \in Exclusions : resolveRegularExpression(r, ke)
  \/ \E k \in Keys : resolveFirst(k)
  \/ Tick

Spec == Init /\ [][Next]_vars

\* ==================================================== ConcSpec: the threads
\* Each thread calls the methods one after another.  pthread_mutex_lock is a
\* step of its own (a thread waits at an *_lock position until the mutex is
\* free); the body of a critical section and its pthread_mutex_unlock are one
\* step.  The resolve* methods take no lock: their scan is one step per
\* iteration, and the del() they call on an expired node locks as any del().

\* the arguments the threads use
CInputs == {<<"a:1", "v1">>, <<"b:1", "a:1">>}
CKeys == {"a:1", "b:1"}
CSeconds == {-1}
CExclusions == {{}, {"b:1"}}
CPatterns == {[anchored |-> TRUE, lit |-> <<"a", ":">>]}

\* ---- iterators: a node id, 0 for end()
Pos(mm, id) ==
  IF \E i \in 1..Len(mm) : mm[i].id = id
  THEN CHOOSE i \in 1..Len(mm) : mm[i].id = id
  ELSE 0

\* begin()
Begin(mm) == IF mm = <<>> THEN 0 ELSE mm[1].id

\* ++it, for an iterator that refers to a node of the map
Succ(mm, id) == IF Pos(mm, id) = Len(mm) THEN 0 ELSE mm[Pos(mm, id) + 1].id

\* equal_range(k).first and .second
RangeFirst(mm, k) == IF Idx(mm, k) = {} THEN 0 ELSE mm[Min(Idx(mm, k))].id
RangeSecond(mm, k) ==
  IF Idx(mm, k) = {} \/ Max(Idx(mm, k)) = Len(mm)
  THEN 0
  ELSE mm[Max(Idx(mm, k)) + 1].id

\* Dereferencing end(), or an iterator whose node another thread has erased,
\* is undefined.
Dangling(mm, id) == id = 0 \/ Pos(mm, id) = 0

\* what an undefined dereference in a scan may lead to: the thread dies, or
\* the scan reads memory that ends the loop and the call returns
Undefined == {"crashed", "idle"}

Begins(t) == pc[t] = "idle" /\ ncalls[t] < MaxCalls

Goto(t, l) == pc' = [pc EXCEPT ![t] = l]

Counted(t) == ncalls' = [ncalls EXCEPT ![t] = @ + 1]

\* ---- the calls
store_call(t, k, v) ==
  /\ Begins(t)
  /\ nins < MaxInserts
  /\ nins' = nins + 1
  /\ loc' = [loc EXCEPT ![t] = Locals("store", k, v, 0, {}, <<>>, 0, 0, nins + 1)]
  /\ Goto(t, "store_lock")
  /\ Counted(t)
  /\ UNCHANGED <<m, now, insertFront, pm, last, lock>>

updateFirst_call(t, k, v) ==
  /\ Begins(t)
  /\ loc' = [loc EXCEPT ![t] = Locals("updateFirst", k, v, 0, {}, <<>>, 0, 0, 0)]
  /\ Goto(t, "upd_lock")
  /\ Counted(t)
  /\ UNCHANGED <<m, now, nins, insertFront, pm, last, lock>>

\* storeOrUpdateFirst starts by calling updateFirst
storeOrUpdateFirst_call(t, k, v) ==
  /\ Begins(t)
  /\ nins < MaxInserts
  /\ nins' = nins + 1
  /\ loc' = [loc EXCEPT ![t] =
               Locals("storeOrUpdateFirst", k, v, 0, {}, <<>>, 0, 0, nins + 1)]
  /\ Goto(t, "upd_lock")
  /\ Counted(t)
  /\ UNCHANGED <<m, now, insertFront, pm, last, lock>>

del_call(t, k) ==
  /\ Begins(t)
  /\ loc' = [loc EXCEPT ![t] =
               [Locals("del", k, "", 0, {}, <<>>, 0, 0, 0) EXCEPT !.arg = k]]
  /\ Goto(t, "del_lock")
  /\ Counted(t)
  /\ UNCHANGED <<m, now, nins, insertFront, pm, last, lock>>

setExpiry_call(t, k, seconds) ==
  /\ Begins(t)
  /\ loc' = [loc EXCEPT ![t] = Locals("setExpiry", k, "", seconds, {}, <<>>, 0, 0, 0)]
  /\ Goto(t, "exp_lock")
  /\ Counted(t)
  /\ UNCHANGED <<m, now, nins, insertFront, pm, last, lock>>

\* auto range = this->equal_range(var), without the lock
resolveSingleMatch_call(t, var) ==
  /\ Begins(t)
  /\ loc' = [loc EXCEPT ![t] =
               Locals("resolveSingleMatch", var, "", 0, {}, <<>>,
                      RangeFirst(m, var), RangeSecond(m, var), 0)]
  /\ Goto(t, "rsm_loop")
  /\ Counted(t)
  /\ UNCHANGED <<m, now, nins, insertFront, pm, last, lock>>

\* for (auto &i : *this), or equal_range(var), without the lock
resolveMultiMatches_call(t, var, ke) ==
  /\ Begins(t)
  /\ loc' = [loc EXCEPT ![t] =
               IF var = NoKey
               THEN Locals("resolveMultiMatches", var, "", 0, ke, <<>>,
                           Begin(m), 0, 0)
               ELSE Locals("resolveMultiMatches", var, "", 0, ke, <<>>,
                           RangeFirst(m, var), RangeSecond(m, var), 0)]
  /\ Goto(t, "rmm_loop")
  /\ Counted(t)
  /\ UNCHANGED <<m, now, nins, insertFront, pm, last, lock>>

resolveRegularExpression_call(t, r, ke) ==
  /\ Begins(t)
  /\ loc' = [loc EXCEPT ![t] =
               Locals("resolveRegularExpression", NoKey, "", 0, ke, <<r>>,
                      Begin(m), 0, 0)]
  /\ Goto(t, "rre_loop")
  /\ Counted(t)
  /\ UNCHANGED <<m, now, nins, insertFront, pm, last, lock>>

\* resolveFirst reads the map once, without the lock
resolveFirst_call(t, var) ==
  /\ Begins(t)
  /\ loc' = [loc EXCEPT ![t] =
               [Locals("resolveFirst", var, "", 0, {}, <<>>, 0, 0, 0)
                  EXCEPT !.ret = ResolveFirst(m, var)]]
  /\ Counted(t)
  /\ UNCHANGED <<m, now, nins, insertFront, pm, last, lock, pc>>

\* ---- pthread_mutex_lock(&m_lock)
LockPositions == {"store_lock", "upd_lock", "del_lock", "exp_lock"}

Locked(l) ==
  CASE l = "store_lock" -> "store_cs"
    [] l = "upd_lock" -> "upd_cs"
    [] l = "del_lock" -> "del_cs"
    [] l = "exp_lock" -> "exp_cs"

\* a lock that is granted although another thread holds it
mutex_lock_NoWait(t) ==
  /\ pc[t] \in LockPositions
  /\ lock' = t
  /\ Goto(t, Locked(pc[t]))
  /\ UNCHANGED <<m, now, nins, insertFront, pm, last, loc, ncalls>>

mutex_lock(t) ==
  /\ pc[t] \in LockPositions
  /\ lock = 0
  /\ lock' = t
  /\ Goto(t, Locked(pc[t]))
  /\ UNCHANGED <<m, now, nins, insertFront, pm, last, loc, ncalls>>

\* ---- the critical sections, each ending with pthread_mutex_unlock
store_cs(t) ==
  /\ pc[t] = "store_cs"
  /\ \E mm \in Emplace(m, loc[t].key, loc[t].val, loc[t].id, insertFront) :
       m' = mm
  /\ lock' = 0
  /\ loc' = [loc EXCEPT ![t].ret =
               IF loc[t].op = "storeOrUpdateFirst" THEN <<TRUE>> ELSE <<>>]
  /\ Goto(t, "idle")
  /\ UNCHANGED <<now, nins, insertFront, pm, last, ncalls>>

\* storeOrUpdateFirst goes on to store() when updateFirst() returned false
upd_cs(t) ==
  /\ pc[t] = "upd_cs"
  /\ LET r == UpdateFirst(m, loc[t].key, loc[t].val)
     IN  /\ m' = r.m
         /\ IF loc[t].op = "storeOrUpdateFirst" /\ r.ret = FALSE
            THEN /\ Goto(t, "store_lock")
                 /\ loc' = loc
            ELSE /\ Goto(t, "idle")
                 /\ loc' = [loc EXCEPT ![t].ret =
                              IF loc[t].op = "storeOrUpdateFirst"
                              THEN <<TRUE>>
                              ELSE <<r.ret>>]
  /\ lock' = 0
  /\ UNCHANGED <<now, nins, insertFront, pm, last, ncalls>>

\* del(), called by a thread or by a scan that met an expired node; the scan
\* leaves its loop after it, and the method returns
del_cs(t) ==
  /\ pc[t] = "del_cs"
  /\ m' = Del(m, loc[t].arg)
  /\ lock' = 0
  /\ Goto(t, "idle")
  /\ UNCHANGED <<now, nins, insertFront, pm, last, loc, ncalls>>

exp_cs(t) ==
  /\ pc[t] = "exp_cs"
  /\ m' = SetExpiry(m, loc[t].key, now, loc[t].secs)
  /\ lock' = 0
  /\ Goto(t, "idle")
  /\ UNCHANGED <<now, nins, insertFront, pm, last, loc, ncalls>>

\* ---- one iteration of a scan
\* the scan of thread t dereferences an iterator that refers to no node
ScanUndefined(t) ==
  /\ loc[t].it # loc[t].end
  /\ Dangling(m, loc[t].it)
  /\ \E l \in Undefined : Goto(t, l)
  /\ UNCHANGED <<m, now, nins, insertFront, pm, last, lock, loc, ncalls>>

\* the scan of thread t has reached the end of its range
ScanEnd(t) ==
  /\ loc[t].it = loc[t].end
  /\ Goto(t, "idle")
  /\ UNCHANGED <<m, now, nins, insertFront, pm, last, lock, loc, ncalls>>

\* the node the iterator of thread t refers to
At(t) == m[Pos(m, loc[t].it)]

\* continue / ++it
Advance(t, out) ==
  /\ loc' = [loc EXCEPT ![t].it = Succ(m, loc[t].it), ![t].out = out]
  /\ UNCHANGED pc

\* del(it->second.getString()); break
DelAndBreak(t) ==
  /\ loc' = [loc EXCEPT ![t].arg = At(t).val]
  /\ Goto(t, "del_lock")

rsm_loop(t) ==
  /\ pc[t] = "rsm_loop"
  /\ \/ ScanEnd(t)
     \/ ScanUndefined(t)
     \/ /\ loc[t].it # loc[t].end
        /\ ~Dangling(m, loc[t].it)
        /\ IF isExpired(At(t), now)
           THEN DelAndBreak(t)
           ELSE Advance(t, Append(loc[t].out,
                                  VariableValue(At(t).key, At(t).val)))
        /\ UNCHANGED <<m, now, nins, insertFront, pm, last, lock, ncalls>>

rmm_loop(t) ==
  /\ pc[t] = "rmm_loop"
  /\ \/ ScanEnd(t)
     \/ ScanUndefined(t)
     \/ /\ loc[t].it # loc[t].end
        /\ ~Dangling(m, loc[t].it)
        /\ IF toOmit(loc[t].ke,
                     IF loc[t].key = NoKey THEN At(t).key ELSE loc[t].key)
           THEN Advance(t, loc[t].out)
           ELSE IF isExpired(At(t), now)
                THEN DelAndBreak(t)
                ELSE Advance(t,
                       <<VariableValue(IF loc[t].key = NoKey
                                       THEN At(t).key
                                       ELSE loc[t].key, At(t).val)>>
                         \o loc[t].out)
        /\ UNCHANGED <<m, now, nins, insertFront, pm, last, lock, ncalls>>

rre_loop(t) ==
  /\ pc[t] = "rre_loop"
  /\ \/ ScanEnd(t)
     \/ ScanUndefined(t)
     \/ /\ loc[t].it # loc[t].end
        /\ ~Dangling(m, loc[t].it)
        /\ IF ~regex_search(At(t).key, loc[t].pat[1])
           THEN Advance(t, loc[t].out)
           ELSE IF toOmit(loc[t].ke, At(t).key)
                THEN Advance(t, loc[t].out)
                ELSE IF isExpired(At(t), now)
                     THEN DelAndBreak(t)
                     ELSE Advance(t, <<VariableValue(At(t).key, At(t).val)>>
                                       \o loc[t].out)
        /\ UNCHANGED <<m, now, nins, insertFront, pm, last, lock, ncalls>>

ConcNext ==
  \E t \in Threads :
    \/ \E kv \in CInputs : store_call(t, kv[1], kv[2])
    \/ \E kv \in CInputs : updateFirst_call(t, kv[1], kv[2])
    \/ \E kv \in CInputs : storeOrUpdateFirst_call(t, kv[1], kv[2])
    \/ \E k \in CKeys : del_call(t, k)
    \/ \E k \in CKeys, s \in CSeconds : setExpiry_call(t, k, s)
    \/ \E k \in CKeys : resolveSingleMatch_call(t, k)
    \/ \E k \in CKeys \cup {NoKey}, ke \in CExclusions :
         resolveMultiMatches_call(t, k, ke)
    \/ \E r \in CPatterns, ke \in CExclusions :
         resolveRegularExpression_call(t, r, ke)
    \/ \E k \in CKeys : resolveFirst_call(t, k)
    \/ mutex_lock(t)
    \/ store_cs(t)
    \/ upd_cs(t)
    \/ del_cs(t)
    \/ exp_cs(t)
    \/ rsm_loop(t)
    \/ rmm_loop(t)
    \/ rre_loop(t)

ConcSpec == Init /\ [][ConcNext]_vars

\* A step of thread t inside a call it has made.
Proceed(t) ==
  \/ mutex_lock(t)
  \/ store_cs(t)
  \/ upd_cs(t)
  \/ del_cs(t)
  \/ exp_cs(t)
  \/ rsm_loop(t)
  \/ rmm_loop(t)
  \/ rre_loop(t)

\* Fair scheduling: a thread that can go on inside its call does so, and a
\* thread that waits for the mutex gets it if it is free again and again.
FairConcSpec ==
  /\ ConcSpec
  /\ \A t \in Threads : WF_vars(Proceed(t)) /\ SF_vars(mutex_lock(t))

\* ------------------------------------- DisjointSpec: threads on disjoint keys
\* Every thread calls store, del and resolveMultiMatches on a key of its own.
KeyOf(t) == IF t = 1 THEN "a:1" ELSE "b:1"

\* the (key, value) arguments thread t stores
InputsOf(t) == {kv \in CInputs : kv[1] = KeyOf(t)}

DisjointNext ==
  \E t \in Threads :
    \/ \E kv \in InputsOf(t) : store_call(t, kv[1], kv[2])
    \/ del_call(t, KeyOf(t))
    \/ resolveMultiMatches_call(t, KeyOf(t), {})
    \/ mutex_lock(t)
    \/ store_cs(t)
    \/ del_cs(t)
    \/ rmm_loop(t)

DisjointSpec == Init /\ [][DisjointNext]_vars

\* ===================================================== PmSpec: PmFromFile
\* One call of PmFromFile::init on a data map drawn from DataMaps.
PmInit ==
  /\ m = <<>>
  /\ now = 0
  /\ nins = 0
  /\ insertFront = FALSE
  /\ last = NoCall
  /\ pc = Idle
  /\ lock = 0
  /\ loc = NoLocals
  /\ ncalls = [t \in Threads |-> 0]
  /\ pm \in {PmStart(dm) : dm \in DataMaps}

\* the lookup of m_param in the data map
init_lookup ==
  /\ pm.pos = "start"
  /\ pm' = IF ~pm.map.set
           THEN [pm EXCEPT !.error = "data map is not set",
                           !.ret = <<FALSE>>, !.pos = "returned"]
           ELSE IF ~pm.map.found
                THEN [pm EXCEPT !.error = "the data is not found",
                                !.ret = <<FALSE>>, !.pos = "returned"]
                ELSE IF pm.map.value = <<>>
                     THEN [pm EXCEPT !.pos = "prepare"]
                     ELSE [pm EXCEPT !.data_stream = pm.map.value,
                                     !.pos = "getline"]
  /\ UNCHANGED <<m, now, nins, insertFront, last, pc, lock, loc, ncalls>>

\* one iteration of the getline loop
init_getline ==
  /\ pm.pos = "getline"
  /\ LET g == getline(pm.data_stream)
     IN  pm' = IF ~g.ok
               THEN [pm EXCEPT !.pos = "prepare"]
               ELSE [pm EXCEPT !.data_stream = g.rest,
                               !.m_p = IF isComment(g.line) = FALSE
                                       THEN acmp_add_pattern(pm.m_p, g.line)
                                       ELSE pm.m_p]
  /\ UNCHANGED <<m, now, nins, insertFront, last, pc, lock, loc, ncalls>>

\* while (m_p->is_failtree_done == 0) acmp_prepare(m_p); return true
init_prepare ==
  /\ pm.pos = "prepare"
  /\ pm' = [pm EXCEPT !.is_failtree_done = TRUE, !.ret = <<TRUE>>,
                      !.pos = "returned"]
  /\ UNCHANGED <<m, now, nins, insertFront, last, pc, lock, loc, ncalls>>

PmNext ==
  \/ init_lookup
  \/ init_getline
  \/ init_prepare

PmSpec == PmInit /\ [][PmNext]_vars

\* ======================================================================
\* Properties of Spec.  In a state of Spec, `last` is the call that has just
\* returned, last.pre the map it started from, and m the map it left.
\* ======================================================================
RECURSIVE Reverse(_)
Reverse(q) == IF q = <<>> THEN <<>> ELSE Append(Reverse(Tail(q)), Head(q))

\* the nodes of q before the first expired one
RECURSIVE LivePrefix(_, _)
LivePrefix(q, t) ==
  IF q = <<>> \/ isExpired(Head(q), t)
  THEN <<>>
  ELSE <<Head(q)>> \o LivePrefix(Tail(q), t)

Records(q) == [i \in 1..Len(q) |-> VariableValue(q[i].key, q[i].val)]

AnyExpired(q, t) == \E i \in 1..Len(q) : isExpired(q[i], t)
AllExpired(q, t) == \A i \in 1..Len(q) : isExpired(q[i], t)

\* the scan of the call `last` looks at a node of key k before it stops:
\* no node that the scan would act on and that is expired comes before k's
\* first node
Reaches(k) ==
  /\ Idx(last.pre, k) # {}
  /\ CASE last.op = "resolveSingleMatch" -> last.key = k
       [] last.op = "resolveMultiMatches" ->
            /\ last.ke = {}
            /\ \/ last.key = k
               \/ /\ last.key = NoKey
                  /\ \A i \in 1..(Min(Idx(last.pre, k)) - 1) :
                       ~isExpired(last.pre[i], now)
       [] last.op = "resolveRegularExpression" ->
            /\ last.ke = {}
            /\ regex_search(k, last.pat[1])
            /\ \A i \in 1..(Min(Idx(last.pre, k)) - 1) :
                 regex_search(last.pre[i].key, last.pat[1])
                   => ~isExpired(last.pre[i], now)
       [] OTHER -> FALSE

\* C1 (as claimed): once setExpiry(k, seconds <= 0) has made the nodes of k
\* expired, a resolveSingleMatch, resolveMultiMatches or
\* resolveRegularExpression whose scan reaches k emits no record of key k and
\* leaves no node of key k in the map.
C1_LazyExpiryRemovesKey ==
  \A k \in Keys :
    (Reaches(k) /\ AllExpired(EqualRange(last.pre, k), now))
      => /\ \A i \in 1..Len(last.out) : last.out[i].key # k
         /\ Count(m, k) = 0

\* C2 (as claimed): right after store(k, v), whatever the map held,
\* resolveFirst(k) returns v.
C2_StoreThenResolveFirst ==
  last.op = "store" => ResolveFirst(m, last.key) = <<last.val>>

\* C2 (amended): right after store(k, v), resolveFirst(k) returns v when k had
\* no node before; when k had nodes, it returns v or what it returned before
\* the store.
C2_StoreThenResolveFirstAmended ==
  last.op = "store" =>
    IF Count(last.pre, last.key) = 0
    THEN ResolveFirst(m, last.key) = <<last.val>>
    ELSE ResolveFirst(m, last.key)
           \in {<<last.val>>, ResolveFirst(last.pre, last.key)}

C2_Witness ==
  /\ last.op = "store"
  /\ Count(last.pre, last.key) = 0
  /\ Len(last.pre) > 0
  /\ ResolveFirst(m, last.key) = <<last.val>>

\* C3: right after del(k), resolveFirst(k) returns NULL, resolveSingleMatch(k)
\* appends nothing, no node of key k is left, and the nodes of every other key
\* are as they were.
C3_DelRemovesKeyOnly ==
  last.op = "del" =>
    /\ ResolveFirst(m, last.key) = <<>>
    /\ ResolveSingleMatch(m, last.key, now).out = <<>>
    /\ Count(m, last.key) = 0
    /\ \A k \in Keys \ {last.key} : EqualRange(m, k) = EqualRange(last.pre, k)
    /\ Len(m) = Len(last.pre) - Count(last.pre, last.key)

C3_Witness ==
  /\ last.op = "del"
  /\ Count(last.pre, last.key) >= 2
  /\ m = <<>>

\* C4: updateFirst(k, v2) on a key with nodes returns true, makes v2 the
\* payload of the first node of k's range (so resolveFirst(k) = v2), and leaves
\* that node's expiry and every other node as they were; on a key without
\* nodes it returns false and leaves the map as it was.
C4_UpdateFirst ==
  last.op = "updateFirst" =>
    IF Count(last.pre, last.key) > 0
    THEN /\ last.ok = TRUE
         /\ ResolveFirst(m, last.key) = <<last.val>>
         /\ Len(m) = Len(last.pre)
         /\ \A i \in 1..Len(m) :
              IF i = Min(Idx(last.pre, last.key))
              THEN /\ m[i].key = last.pre[i].key
                   /\ m[i].val = last.val
                   /\ m[i].hasExp = last.pre[i].hasExp
                   /\ m[i].exp = last.pre[i].exp
              ELSE m[i] = last.pre[i]
    ELSE /\ last.ok = FALSE
         /\ m = last.pre

C4_Witness ==
  /\ last.op = "updateFirst"
  /\ Count(last.pre, last.key) >= 2
  /\ last.pre[Min(Idx(last.pre, last.key))].hasExp
  /\ last.pre[Min(Idx(last.pre, last.key))].val # last.val
  /\ last.ok = TRUE

\* C5: storeOrUpdateFirst(k, v) returns true; on a key without nodes it leaves
\* a map that store(k, v) can leave (one new node of key k, payload v, no
\* expiry, the rest as it was); on a key with nodes it leaves the map that
\* updateFirst(k, v) leaves, with as many nodes of key k as before.
C5_StoreOrUpdateFirst ==
  last.op = "storeOrUpdateFirst" =>
    /\ last.ok = TRUE
    /\ IF Count(last.pre, last.key) = 0
       THEN /\ m \in Emplace(last.pre, last.key, last.val, 0, insertFront)
            /\ Count(m, last.key) = 1
            /\ Len(m) = Len(last.pre) + 1
       ELSE /\ m = UpdateFirst(last.pre, last.key, last.val).m
            /\ Count(m, last.key) = Count(last.pre, last.key)
            /\ Len(m) = Len(last.pre)

C5_Witness ==
  /\ last.op = "storeOrUpdateFirst"
  /\ Count(last.pre, last.key) >= 2
  /\ ResolveFirst(last.pre, last.key) # <<last.val>>

\* C6 (as claimed): nodes stored under k in the order v1, v2, v3 are resolved
\* as [v3, v2, v1].  Stated one store at a time: right after store(k, v) into a
\* range without expired nodes, resolveMultiMatches(k, no exclusions) yields v
\* first and then what it yielded before the store.
C6_NewestFirst ==
  (last.op = "store" /\ ~AnyExpired(EqualRange(last.pre, last.key), now)) =>
    ResolveMultiMatches(m, last.key, {}, now).out
      = <<VariableValue(last.key, last.val)>>
          \o ResolveMultiMatches(last.pre, last.key, {}, now).out

\* C6 (amended): resolveMultiMatches(k, no exclusion of k) on an empty output
\* yields the records of the nodes of k's range before the first expired one,
\* in the reverse of the order of the scan.  Where the container puts a new
\* node last in the range of its key, a store(k, v) puts v first in that
\* output (v1, v2, v3 give [v3, v2, v1]); where it puts the node first, v comes
\* last (v1, v2, v3 give [v1, v2, v3]).
C6_ReverseOfScan ==
  /\ (last.op = "resolveMultiMatches" /\ last.key # NoKey
        /\ ~toOmit(last.ke, last.key)) =>
       last.out
         = Reverse(Records(LivePrefix(EqualRange(last.pre, last.key), now)))
  /\ (last.op = "store" /\ ~AnyExpired(EqualRange(last.pre, last.key), now)) =>
       LET before == ResolveMultiMatches(last.pre, last.key, {}, now).out
           new == <<VariableValue(last.key, last.val)>>
       IN  ResolveMultiMatches(m, last.key, {}, now).out
             = IF insertFront THEN before \o new ELSE new \o before

C6_Witness ==
  /\ last.op = "resolveMultiMatches"
  /\ last.key # NoKey
  /\ Len(last.out) = 2
  /\ last.out[1].val # last.out[2].val
  /\ last.out[1].val = EqualRange(last.pre, last.key)[2].val

\* the range q without its i-th node
Without(q, i) == SubSeq(q, 1, i - 1) \o SubSeq(q, i + 1, Len(q))

\* C7 (as claimed): when the first expired node of k's range is its i-th node,
\* resolveSingleMatch(k) appends the records of the i-1 nodes before it, in
\* scan order, removes that node, and leaves the nodes after it in the map.
C7_TruncateAndRemoveExpired ==
  (last.op = "resolveSingleMatch"
     /\ AnyExpired(EqualRange(last.pre, last.key), now)) =>
    LET range == EqualRange(last.pre, last.key)
        i == Len(LivePrefix(range, now)) + 1
    IN  /\ last.out = Records(SubSeq(range, 1, i - 1))
        /\ EqualRange(m, last.key) = Without(range, i)

\* C8 (as claimed): every record resolveRegularExpression emits has a key that
\* matches the pattern and is not omitted, and the nodes of every key that does
\* not match the pattern are in the map as they were.
C8_RegexTouchesMatchingOnly ==
  last.op = "resolveRegularExpression" =>
    /\ \A i \in 1..Len(last.out) :
         /\ regex_search(last.out[i].key, last.pat[1])
         /\ ~toOmit(last.ke, last.out[i].key)
    /\ \A k \in Keys :
         ~regex_search(k, last.pat[1])
           => EqualRange(m, k) = EqualRange(last.pre, k)

\* ======================================================================
\* Properties of ConcSpec.
\* ======================================================================
ResolveMethods ==
  {"resolveFirst", "resolveSingleMatch", "resolveMultiMatches",
   "resolveRegularExpression"}

\* thread t is inside a resolve* call: in its scan, or in the del() of it
InResolution(t) == pc[t] \notin {"idle", "crashed"} /\ loc[t].op \in ResolveMethods

\* C9 (as claimed): a resolve* call holds m_lock from the start of its scan
\* until it returns, so that while a thread is inside a resolve* call no step
\* of another thread changes the map.
C9_ScanUndisturbed ==
  [][\A t \in Threads :
       (InResolution(t) /\ pc'[t] = pc[t] /\ loc'[t] = loc[t]) => m' = m]_vars

\* C10 (as claimed): when the only calls made are one storeOrUpdateFirst(k, _)
\* by each thread, on a key without nodes, and all have returned, the map has
\* exactly one node of key k.
C10_OneEntryForKey ==
  \A k \in CKeys :
    (\A t \in Threads :
       /\ pc[t] = "idle"
       /\ ncalls[t] = 1
       /\ loc[t].op = "storeOrUpdateFirst"
       /\ loc[t].key = k)
      => Count(m, k) = 1

\* C11 (as claimed): threads that call store, del and resolveMultiMatches on
\* pairwise disjoint keys see what some sequential order of the calls gives:
\* no call dies, and every record a resolveMultiMatches of a thread has
\* collected carries a payload that was stored under the key of that thread.
C11_DisjointKeysSequential ==
  \A t \in Threads :
    /\ pc[t] # "crashed"
    /\ \A i \in 1..Len(loc[t].out) :
         <<KeyOf(t), loc[t].out[i].val>> \in InputsOf(t)

\* C12 (as claimed): under fair scheduling every call a thread has made
\* returns.
C12_EveryCallReturns ==
  \A t \in Threads : (pc[t] # "idle") ~> (pc[t] = "idle")

\* ======================================================================
\* Further properties of Spec.
\* ======================================================================
\* C13: setExpiry(k, s) gives every node of key k the expiry now + s, whatever
\* expiry it had, and leaves payloads, keys and the nodes of other keys as they
\* were; for s <= 0 every node of k is expired now and at every later instant;
\* on a key without nodes the map is left as it was.
C13_SetExpiry ==
  last.op = "setExpiry" =>
    /\ Len(m) = Len(last.pre)
    /\ \A i \in 1..Len(m) :
         IF last.pre[i].key = last.key
         THEN /\ m[i].key = last.key
              /\ m[i].val = last.pre[i].val
              /\ m[i].hasExp
              /\ m[i].exp = now + last.secs
              /\ last.secs <= 0 =>
                   \A t \in now..(MaxNow + 1) : isExpired(m[i], t)
         ELSE m[i] = last.pre[i]
    /\ Count(last.pre, last.key) = 0 => m = last.pre

C13_Witness ==
  /\ last.op = "setExpiry"
  /\ last.secs <= 0
  /\ Count(last.pre, last.key) = 2
  /\ \E i \in 1..Len(last.pre) :
       last.pre[i].hasExp /\ last.pre[i].exp # now + last.secs
  /\ \A i \in 1..Len(m) : isExpired(m[i], now)

\* C14: resolveFirst(k) returns the payload of the first node of k's range,
\* expired or not, returns NULL when k has no node, and leaves the map as it
\* was.
C14_ResolveFirstIgnoresExpiry ==
  last.op = "resolveFirst" =>
    /\ m = last.pre
    /\ IF Count(last.pre, last.key) = 0
       THEN last.ret = <<>>
       ELSE last.ret = <<EqualRange(last.pre, last.key)[1].val>>

C14_Witness ==
  /\ last.op = "resolveFirst"
  /\ Count(last.pre, last.key) = 2
  /\ isExpired(EqualRange(last.pre, last.key)[1], now)
  /\ EqualRange(last.pre, last.key)[1].val # EqualRange(last.pre, last.key)[2].val
  /\ last.ret = <<EqualRange(last.pre, last.key)[1].val>>
  /\ m = last.pre

\* C15: resolveMultiMatches(k, ke) with a non-empty k tests the filter on k
\* itself.  When ke omits k, nothing is emitted and the map is left as it was,
\* expired nodes of k included; when ke does not omit k, every node of k's
\* range before the first expired one gives one record, with key k and the
\* payload of the node.
C15_FilterOnQueriedKey ==
  (last.op = "resolveMultiMatches" /\ last.key # NoKey) =>
    LET live == LivePrefix(EqualRange(last.pre, last.key), now)
    IN  IF toOmit(last.ke, last.key)
        THEN /\ last.out = <<>>
             /\ m = last.pre
        ELSE /\ Len(last.out) = Len(live)
             /\ \A j \in 1..Len(live) :
                  /\ last.out[Len(live) - j + 1].key = last.key
                  /\ last.out[Len(live) - j + 1].val = live[j].val

C15_Witness ==
  /\ last.op = "resolveMultiMatches"
  /\ last.key # NoKey
  /\ toOmit(last.ke, last.key)
  /\ AnyExpired(EqualRange(last.pre, last.key), now)
  /\ ~AllExpired(EqualRange(last.pre, last.key), now)
  /\ last.out = <<>>
  /\ m = last.pre

\* the expired nodes of q
Expired(q, t) == SelectSeq(q, LAMBDA e : isExpired(e, t))

\* the nodes of q whose key ke does not omit
Kept(q, ke) == SelectSeq(q, LAMBDA e : ~toOmit(ke, e.key))

\* C16 (as claimed): resolveMultiMatches("", ke) scans the whole map in
\* iteration order and skips the nodes whose key ke omits before it looks at
\* their expiry, so that the output is the records of the nodes that are not
\* omitted and come before the first expired one of them, in the reverse of
\* the scan order, and an expired node that is omitted is still in the map
\* after the call.
C16_WholeStoreScan ==
  (last.op = "resolveMultiMatches" /\ last.key = NoKey) =>
    /\ last.out = Reverse(Records(LivePrefix(Kept(last.pre, last.ke), now)))
    /\ \A k \in Keys :
         toOmit(last.ke, k) =>
           Expired(EqualRange(m, k), now) = Expired(EqualRange(last.pre, k), now)

\* C17: store(k, v) adds one node: afterwards k has one node more than before,
\* the new node has payload v and no expiry, and the map without the new node
\* is the map before the call (every node with its key, payload and expiry).
C17_StoreInsertsOne ==
  last.op = "store" =>
    /\ Count(m, last.key) = Count(last.pre, last.key) + 1
    /\ Len(m) = Len(last.pre) + 1
    /\ \E p \in 1..Len(m) :
         /\ m[p].key = last.key
         /\ m[p].val = last.val
         /\ ~m[p].hasExp
         /\ Without(m, p) = last.pre

C17_Witness ==
  /\ last.op = "store"
  /\ Count(last.pre, last.key) = 1
  /\ last.pre[1].hasExp
  /\ last.pre[1].val # last.val
  /\ Count(m, last.key) = 2

\* ======================================================================
\* Properties of PmSpec.
\* ======================================================================
\* the lines of a text, as getline yields them
RECURSIVE Lines(_)
Lines(text) ==
  IF ~getline(text).ok
  THEN <<>>
  ELSE <<getline(text).line>> \o Lines(getline(text).rest)

\* a line that begins with '#', possibly preceded only by whitespace
HashComment(line) ==
  \E p \in 1..Len(line) :
    /\ line[p] = "#"
    /\ \A i \in 1..(p - 1) : isspace(line[i])

\* C18 (as claimed): when init() has returned true, the patterns of the
\* matcher are the lines of the text that are not '#' comments, in text order,
\* and the matcher was finalized after the last of them was added.
C18_AddsEveryNonComment ==
  /\ pm.is_failtree_done => pm.pos = "returned"
  /\ (pm.pos = "returned" /\ pm.ret = <<TRUE>>) =>
       /\ pm.is_failtree_done
       /\ pm.m_p = SelectSeq(Lines(pm.map.value), LAMBDA l : ~HashComment(l))

\* C18 (amended): when init() has returned true, the patterns of the matcher
\* are the lines of the text that are neither empty nor '#' comments, in text
\* order, and the matcher was finalized after the last of them was added: an
\* empty line is skipped as a comment is.
C18_AddsEveryNonCommentNonEmpty ==
  /\ pm.is_failtree_done => pm.pos = "returned"
  /\ (pm.pos = "returned" /\ pm.ret = <<TRUE>>) =>
       /\ pm.is_failtree_done
       /\ pm.m_p = SelectSeq(Lines(pm.map.value),
                             LAMBDA l : l # <<>> /\ ~HashComment(l))

C18_Witness ==
  /\ pm.pos = "returned"
  /\ pm.ret = <<TRUE>>
  /\ \E i \in 1..Len(Lines(pm.map.value)) : Lines(pm.map.value)[i] = <<>>
  /\ Len(pm.m_p) = 2
  /\ pm.m_p[1] # pm.m_p[2]

\* ======================================================================
\* Properties of Spec: what a resolution leaves of the map.
\* ======================================================================
\* C19: a resolveFirst, resolveSingleMatch, resolveMultiMatches or
\* resolveRegularExpression call leaves the map as it was, or as it was
\* without the nodes of one key: the nodes left are nodes of the map before
\* the call, with their key, payload and expiry, and in their order.
C19_ResolutionOnlyShrinks ==
  last.op \in ResolveMethods =>
    \/ m = last.pre
    \/ \E k \in Keys : m = SelectSeq(last.pre, LAMBDA e : e.key # k)

C19_Witness ==
  /\ last.op \in ResolveMethods
  /\ Len(last.pre) = 2
  /\ Len(m) = 1
  /\ m[1].hasExp

\* ======================================================================
\* Properties of ConcSpec: the mutex.
\* ======================================================================
\* the positions between pthread_mutex_lock and pthread_mutex_unlock
CriticalSections == {"store_cs", "upd_cs", "del_cs", "exp_cs"}

\* C20: at most one thread is between a pthread_mutex_lock and its
\* pthread_mutex_unlock, that thread is the holder of m_lock, and every step
\* that changes the map (emplace in store, setString in updateFirst, erase in
\* del, also the del of a scan, setExpiry) is the step of a critical section
\* taken by the holder of m_lock.
C20_WritersHoldLock ==
  /\ [](/\ Cardinality({t \in Threads : pc[t] \in CriticalSections}) <= 1
        /\ \A t \in Threads : pc[t] \in CriticalSections <=> lock = t)
  /\ [][m' # m =>
          \E t \in Threads :
            /\ lock = t
            /\ pc[t] \in CriticalSections
            /\ pc'[t] # pc[t]
            /\ lock' = 0]_vars

C20_Witness ==
  /\ lock = 1
  /\ pc[1] = "del_cs"
  /\ loc[1].op \in ResolveMethods
  /\ pc[2] \in LockPositions

====
